---- MODULE Spec2Model ----
(***************************************************************************)
(* A model of the template cache (g3-engine/core/template_manager.py) and  *)
(* of the repository scout pipeline (g3-engine/agents/repo_scout.py).      *)
(*                                                                         *)
(* Part I  - TemplateManager: every call of get_template_path is a         *)
(*           sequence of steps, one per directory operation or git         *)
(*           subprocess; each git command may fail.                        *)
(* Part II - RepoScoutAgent: search, analysis, sort, AI evaluation.        *)
(* Part III - TemplateManager.fetch_analysis_files: the steps of one call  *)
(*           in its temporary directory.                                   *)
(* Part IV - main.py: the start of the service and its tasks.              *)
(***************************************************************************)
EXTENDS Integers, Sequences, FiniteSets, TLC

(***************************************************************************)
(* Bounds of the model.                                                    *)
(***************************************************************************)
\* number of distinct remote snapshots a pull or a fetch can bring in
MaxRev == 1

(***************************************************************************)
(* State                                                                   *)
(***************************************************************************)
\* the template cache and the calls of get_template_path (Part I)
VARIABLES
    disk,     \* cache_base: key -> Absent, or the working copy in <cache_base>/<key>
    pc,       \* per caller: the step of get_template_path it is at
    arg,      \* per caller: [key, force] of the call in progress
    cmds,     \* per caller: the git commands run so far by this call, in order,
              \* each with its outcome: [cmd, ok]
    res,      \* per caller: what the call returns or raises
    pre,      \* per caller: the cache as it was when the call started
    prev      \* the call that returned last: [key, force, cached, res]

storeVars == <<disk, pc, arg, cmds, res, pre, prev>>

\* the state of one run of RepoScoutAgent.search_and_analyze (Part II)
VARIABLES
    spc,          \* where search_and_analyze is
    requirement,  \* its argument
    searchResp,   \* what the GitHub search answered
    candidates,   \* the list 'candidates' (later 'results')
    analysed,     \* how many candidates the analysis loop has been through
    heuristic,    \* per analysed candidate: [score, reason] before the deep read
    fetched,      \* per analysed candidate: what fetch_analysis_files gave
    ranked,       \* the list handed to _evaluate_candidates_with_ai
    aiResp,       \* what the reasoning service answered
    raised,       \* the exception search_and_analyze raised, or None
    evals,        \* how many times _evaluate_candidates_with_ai was called
    posts         \* how many requests were sent to the reasoning service

scoutVars == <<spc, requirement, searchResp, candidates, analysed, heuristic,
               fetched, ranked, aiResp, raised, evals, posts>>

\* one call of TemplateManager.fetch_analysis_files (Part III)
VARIABLES
    fpc,      \* the step of fetch_analysis_files
    tmp,      \* the temporary directory of the call
    pulled,   \* what the pull brought into the temporary directory
    fcmds,    \* the steps taken so far in the temporary directory: [cmd, ok]
    fres,     \* what the call returns or raises
    fpre      \* the cache as it was when the call started

fetchVars == <<fpc, tmp, pulled, fcmds, fres, fpre>>

\* the service process of main.py (Part IV)
VARIABLES
    registryDoc,  \* the registry document found at start
    boot,         \* the module initialisation: not run yet, running, or failed
    scout_agent,  \* whether main.scout_agent is an agent (TRUE) or None (FALSE)
    tasks,        \* the tasks dictionary, in the order the tasks were started
    response      \* the status of the last answer of start_task

appVars == <<registryDoc, boot, scout_agent, tasks, response>>

nonStoreVars == <<scoutVars, fetchVars, appVars>>
nonScoutVars == <<storeVars, fetchVars, appVars>>
nonFetchVars == <<storeVars, scoutVars, appVars>>
nonAppVars == <<storeVars, scoutVars, fetchVars>>

Procs == {"p1", "p2"}

None == "None"
NoTree == [id |-> 0, sub |-> FALSE]
Absent == [stage |-> "absent", tree |-> NoTree, fetched |-> NoTree]

\* what the remote branch can hold: snapshot id, and whether the tree has the sub_path
Snapshots == [id : 1..MaxRev, sub : BOOLEAN]

CacheDir == ".template_cache"

\* the registry document, as _load_registry indexes it by key
Registry ==
    [k \in {"jeecg-demo-local", "plain-repo", "zip-pack"} |->
        CASE k = "jeecg-demo-local" ->
                [key |-> k, type |-> "git", repository |-> "https://example/jeecg.git",
                 branch |-> "master", sub_path |-> "jeecg-module-demo"]
          [] k = "plain-repo" ->
                [key |-> k, type |-> "git", repository |-> "https://example/plain.git",
                 branch |-> "main", sub_path |-> None]
          [] k = "zip-pack" ->
                [key |-> k, type |-> "zip", repository |-> "https://example/pack.zip",
                 branch |-> None, sub_path |-> None]]

\* the keys a caller may ask for: the registry's, and one the registry lacks
Keys == DOMAIN Registry \cup {"unknown-key"}

\* Python truthiness of template_meta.get('sub_path')
Truthy(x) == x \notin {None, ""}

EmptyCache == [k \in Keys |-> Absent]

Exists(d, k) == d[k] # Absent

\* what a call gives its caller: a path, or an exception with its message parts
NoResult == [kind |-> "none", err |-> None, key |-> None, detail |-> None, path |-> <<>>]
Exception(type, msg, k, detail) ==
    [kind |-> type, err |-> msg, key |-> k, detail |-> detail, path |-> <<>>]
TemplateError(msg, k, detail) == Exception("TemplateError", msg, k, detail)
Returned(path) == [kind |-> "path", err |-> None, key |-> None, detail |-> None, path |-> path]

NoCall == [key |-> None, force |-> FALSE]
NoPrev == [key |-> None, force |-> FALSE, cached |-> FALSE, res |-> NoResult]

\* Validate without the check of the entry's type
Validate_NoTypeCheck(k) ==
    IF k \notin DOMAIN Registry
    THEN TemplateError("not defined in registry", k, None)
    ELSE NoResult

\* lines 50-57: the checks before the cache is looked at
Validate(k) ==
    IF k \notin DOMAIN Registry
    THEN TemplateError("not defined in registry", k, None)
    ELSE IF Registry[k].type # "git"
         THEN TemplateError("Unsupported template type", k, Registry[k].type)
         ELSE NoResult

\* CacheBranch updating every existing working copy, forced or not
CacheBranch_AlwaysUpdate(exists, force) ==
    IF exists THEN "update" ELSE "fetch"

\* CacheBranch with force_update ignored
CacheBranch_ForceIgnored(exists, force) ==
    IF exists THEN "hit" ELSE "fetch"

\* lines 60-68: cache hit, forced update, or download
CacheBranch(exists, force) ==
    IF exists THEN (IF force THEN "update" ELSE "hit") ELSE "fetch"

\* lines 70-78: the path handed back, and the check of the sub-path
TargetPath(k) ==
    IF Truthy(Registry[k].sub_path)
    THEN <<CacheDir, k, Registry[k].sub_path>>
    ELSE <<CacheDir, k>>

\* a path that is always found
PathExists_Always(d, path) == TRUE

\* Path.exists() of a path under the cache
PathExists(d, path) ==
    /\ Exists(d, path[2])
    /\ Len(path) = 3 => d[path[2]].tree.sub

\* ResolveResult without the check that the sub-path exists
ResolveResult_NoCheck(d, k) == Returned(TargetPath(k))

ResolveResult(d, k) ==
    IF Truthy(Registry[k].sub_path) /\ ~PathExists(d, TargetPath(k))
    THEN TemplateError("Sub-path not found in repo", k, Registry[k].sub_path)
    ELSE Returned(TargetPath(k))

\* target_dir.mkdir(parents=True, exist_ok=True)
Mkdir(d, k) ==
    IF Exists(d, k) THEN d
    ELSE [d EXCEPT ![k] = [stage |-> "dir", tree |-> NoTree, fetched |-> NoTree]]

\* a cleanup that removes the cache base
Rmtree_CacheBase(d, k) == EmptyCache

\* shutil.rmtree(target_dir)
Rmtree(d, k) == [d EXCEPT ![k] = Absent]

\* a git command that exits non-zero, in _run_git
GitFailed(k, cmd) == TemplateError("Git command failed", k, cmd)

\* what a failed command of _fetch_git_repo leaves on disk: only the pull is
\* inside the try block whose handler removes the directory
FetchFailureDisk(d, k, cmd) ==
    IF cmd = "pull" THEN Rmtree(d, k) ELSE d

\* UpdateFailureDisk cleaning up the way the download does
UpdateFailureDisk_Cleanup(d, k, cmd, tree) == Rmtree(d, k)

\* what a failed command of _update_git_repo leaves on disk
UpdateFailureDisk(d, k, cmd, tree) ==
    IF cmd = "fetch" THEN d ELSE [d EXCEPT ![k].tree = tree]

\* the stages of a working copy, in the order a download goes through them;
\* a command repeated in a directory that is further along leaves it there
StageRank(s) ==
    CASE s = "absent" -> 0 [] s = "dir" -> 1 [] s = "init" -> 2 [] s = "remote" -> 3
      [] s = "sparse" -> 4 [] s = "restricted" -> 5 [] s = "pulled" -> 6

Stage(d, k, s) ==
    IF StageRank(d[k].stage) >= StageRank(s) THEN d ELSE [d EXCEPT ![k].stage = s]

Raise(p, e) ==
    /\ res' = [res EXCEPT ![p] = e]
    /\ pc' = [pc EXCEPT ![p] = "done"]

Run(p, cmd, ok) == cmds' = [cmds EXCEPT ![p] = Append(@, [cmd |-> cmd, ok |-> ok])]

\* get_template_path, lines 45-68: entry of a call
GetTemplatePath(p, k, force) ==
    /\ pc[p] = "idle"
    /\ arg' = [arg EXCEPT ![p] = [key |-> k, force |-> force]]
    /\ pre' = [pre EXCEPT ![p] = disk]
    /\ cmds' = [cmds EXCEPT ![p] = <<>>]
    /\ IF Validate(k) # NoResult
       THEN Raise(p, Validate(k))
       ELSE /\ pc' = [pc EXCEPT ![p] =
                        CASE CacheBranch(Exists(disk, k), force) = "hit" -> "resolve"
                          [] CacheBranch(Exists(disk, k), force) = "update" -> "fetch"
                          [] CacheBranch(Exists(disk, k), force) = "fetch" -> "mkdir"]
            /\ res' = [res EXCEPT ![p] = NoResult]
    /\ UNCHANGED <<disk, prev, nonStoreVars>>

\* _fetch_git_repo, line 153
FetchMkdir(p) ==
    /\ pc[p] = "mkdir"
    /\ disk' = Mkdir(disk, arg[p].key)
    /\ pc' = [pc EXCEPT ![p] = "init"]
    /\ UNCHANGED <<arg, cmds, res, pre, prev, nonStoreVars>>

\* _fetch_git_repo, line 156
FetchInit(p) ==
    /\ pc[p] = "init"
    /\ Exists(disk, arg[p].key)
    /\ \/ /\ Run(p, "init", TRUE)
          /\ disk' = Stage(disk, arg[p].key, "init")
          /\ pc' = [pc EXCEPT ![p] = "remote"]
          /\ UNCHANGED res
       \/ /\ Run(p, "init", FALSE)
          /\ disk' = FetchFailureDisk(disk, arg[p].key, "init")
          /\ Raise(p, GitFailed(arg[p].key, "init"))
    /\ UNCHANGED <<arg, pre, prev, nonStoreVars>>

\* a download that never restricts the checkout
AfterRemoteAdd_NoRestriction(sub_path) == "pull"

\* line 160: the sparse checkout is set up when the entry has a sub_path
AfterRemoteAdd(sub_path) == IF Truthy(sub_path) THEN "sparse" ELSE "pull"

\* _fetch_git_repo, lines 157-160
FetchRemoteAdd(p) ==
    /\ pc[p] = "remote"
    /\ Exists(disk, arg[p].key)
    /\ \/ /\ Run(p, "remote add", TRUE)
          /\ disk' = Stage(disk, arg[p].key, "remote")
          /\ pc' = [pc EXCEPT ![p] = AfterRemoteAdd(Registry[arg[p].key].sub_path)]
          /\ UNCHANGED res
       \/ /\ Run(p, "remote add", FALSE)
          /\ disk' = FetchFailureDisk(disk, arg[p].key, "remote add")
          /\ Raise(p, GitFailed(arg[p].key, "remote add"))
    /\ UNCHANGED <<arg, pre, prev, nonStoreVars>>

\* _fetch_git_repo, line 161
FetchSparseConfig(p) ==
    /\ pc[p] = "sparse"
    /\ Exists(disk, arg[p].key)
    /\ \/ /\ Run(p, "config core.sparseCheckout", TRUE)
          /\ disk' = Stage(disk, arg[p].key, "sparse")
          /\ pc' = [pc EXCEPT ![p] = "write"]
          /\ UNCHANGED res
       \/ /\ Run(p, "config core.sparseCheckout", FALSE)
          /\ disk' = FetchFailureDisk(disk, arg[p].key, "config core.sparseCheckout")
          /\ Raise(p, GitFailed(arg[p].key, "config core.sparseCheckout"))
    /\ UNCHANGED <<arg, pre, prev, nonStoreVars>>

\* lines 162-164: the restriction file is written by open(), not by git
FetchSparseWrite(p) ==
    /\ pc[p] = "write"
    /\ \/ /\ Exists(disk, arg[p].key)
          /\ disk' = Stage(disk, arg[p].key, "restricted")
          /\ pc' = [pc EXCEPT ![p] = "pull"]
          /\ UNCHANGED res
       \/ /\ Raise(p, Exception("OSError", "cannot write", arg[p].key, "sparse-checkout"))
          /\ UNCHANGED disk
    /\ UNCHANGED <<arg, cmds, pre, prev, nonStoreVars>>

\* lines 167-174
FetchPull(p) ==
    /\ pc[p] = "pull"
    /\ Exists(disk, arg[p].key)
    /\ \/ \E s \in Snapshots :
            /\ Run(p, "pull", TRUE)
            /\ disk' = [disk EXCEPT ![arg[p].key] =
                           [stage |-> "pulled", tree |-> s, fetched |-> s]]
            /\ pc' = [pc EXCEPT ![p] = "resolve"]
            /\ UNCHANGED res
       \/ /\ Run(p, "pull", FALSE)
          /\ disk' = FetchFailureDisk(disk, arg[p].key, "pull")
          /\ Raise(p, GitFailed(arg[p].key, "pull"))
    /\ UNCHANGED <<arg, pre, prev, nonStoreVars>>

\* a fetch can only succeed where a remote was configured
HasRemote(d, k) == Exists(d, k) /\ d[k].stage \in {"remote", "sparse", "restricted", "pulled"}

\* _update_git_repo, line 179
UpdateFetch(p) ==
    /\ pc[p] = "fetch"
    /\ \/ \E s \in Snapshots :
            /\ Run(p, "fetch", TRUE)
            /\ HasRemote(disk, arg[p].key)
            /\ disk' = [disk EXCEPT ![arg[p].key].fetched = s]
            /\ pc' = [pc EXCEPT ![p] = "reset"]
            /\ UNCHANGED res
       \/ /\ Run(p, "fetch", FALSE)
          /\ disk' = UpdateFailureDisk(disk, arg[p].key, "fetch", NoTree)
          /\ Raise(p, GitFailed(arg[p].key, "fetch"))
    /\ UNCHANGED <<arg, pre, prev, nonStoreVars>>

\* _update_git_repo, line 180: a failed reset leaves either tree behind
UpdateReset(p) ==
    /\ pc[p] = "reset"
    /\ \/ /\ Run(p, "reset", TRUE)
          /\ Exists(disk, arg[p].key)
          /\ disk' = [disk EXCEPT ![arg[p].key] =
                         [stage |-> "pulled", tree |-> @.fetched, fetched |-> @.fetched]]
          /\ pc' = [pc EXCEPT ![p] = "resolve"]
          /\ UNCHANGED res
       \/ \E t \in {disk[arg[p].key].tree, disk[arg[p].key].fetched} :
            /\ Run(p, "reset", FALSE)
            /\ disk' = UpdateFailureDisk(disk, arg[p].key, "reset", t)
            /\ Raise(p, GitFailed(arg[p].key, "reset"))
    /\ UNCHANGED <<arg, pre, prev, nonStoreVars>>

\* get_template_path, lines 70-78
ResolveSubPath(p) ==
    /\ pc[p] = "resolve"
    /\ Raise(p, ResolveResult(disk, arg[p].key))
    /\ UNCHANGED <<disk, arg, cmds, pre, prev, nonStoreVars>>

\* the call is over: the caller has its path or its error
Return(p) ==
    /\ pc[p] = "done"
    /\ prev' = [key |-> arg[p].key, force |-> arg[p].force,
                cached |-> Exists(pre[p], arg[p].key), res |-> res[p]]
    /\ pc' = [pc EXCEPT ![p] = "idle"]
    /\ arg' = [arg EXCEPT ![p] = NoCall]
    /\ cmds' = [cmds EXCEPT ![p] = <<>>]
    /\ res' = [res EXCEPT ![p] = NoResult]
    /\ pre' = [pre EXCEPT ![p] = EmptyCache]
    /\ UNCHANGED <<disk, nonStoreVars>>

StoreInit ==
    /\ disk = EmptyCache
    /\ pc = [p \in Procs |-> "idle"]
    /\ arg = [p \in Procs |-> NoCall]
    /\ cmds = [p \in Procs |-> <<>>]
    /\ res = [p \in Procs |-> NoResult]
    /\ pre = [p \in Procs |-> EmptyCache]
    /\ prev = NoPrev

StoreStep(p) ==
    \/ FetchMkdir(p)
    \/ FetchInit(p)
    \/ FetchRemoteAdd(p)
    \/ FetchSparseConfig(p)
    \/ FetchSparseWrite(p)
    \/ FetchPull(p)
    \/ UpdateFetch(p)
    \/ UpdateReset(p)
    \/ ResolveSubPath(p)
    \/ Return(p)

\* _run_git, lines 133-144, in a directory that is no longer there (another
\* call's cleanup removed it): subprocess.run raises FileNotFoundError, which
\* is not the CalledProcessError of line 143, nor the TemplateError of line 170
CwdMissing(p) ==
    /\ pc[p] \in {"init", "remote", "sparse", "pull"}
    /\ ~Exists(disk, arg[p].key)
    /\ Raise(p, Exception("FileNotFoundError", "No such file or directory", arg[p].key, CacheDir))
    /\ UNCHANGED <<disk, arg, cmds, pre, prev, nonStoreVars>>

\* an interruption of the caller while _fetch_git_repo is between the mkdir
\* and the end of the pull: neither line 143 nor line 170 catches it, and no
\* finally clause runs
Interrupt(p) ==
    /\ pc[p] \in {"init", "remote", "sparse", "write", "pull"}
    /\ Raise(p, Exception("KeyboardInterrupt", "", arg[p].key, None))
    /\ UNCHANGED <<disk, arg, cmds, pre, prev, nonStoreVars>>

\* callers that do not wait for one another, all asking for the same key
ConcKey == "jeecg-demo-local"
ConcCall(p) == \E force \in BOOLEAN : GetTemplatePath(p, ConcKey, force)

\* callers that do not wait for one another, each asking for a key of its own
OwnKey(p) == IF p = "p1" THEN "jeecg-demo-local" ELSE "plain-repo"
IndepCall(p) == \E force \in BOOLEAN : GetTemplatePath(p, OwnKey(p), force)

\* the manager is called by one caller at a time
SeqCall(p) ==
    /\ \A q \in Procs : pc[q] = "idle"
    /\ fpc = "idle"
    /\ \E k \in Keys, force \in BOOLEAN : GetTemplatePath(p, k, force)

(***************************************************************************)
(* Part II: RepoScoutAgent                                                 *)
(*                                                                         *)
(* A text is a sequence of fragments: concatenation is \o, lower() maps    *)
(* every fragment, and 'kw in text' holds when kw is one of the fragments  *)
(* (the texts below are cut so that every keyword the code looks for is a  *)
(* fragment of its own).                                                   *)
(***************************************************************************)
\* bound on the length of the 'items' array of a search response
MaxItems == 2

\* str.lower() on one fragment
LowerFragment(f) ==
    CASE f = "Jeecg" -> "jeecg"
      [] f = "Stripe" -> "stripe"
      [] f = "SDK" -> "sdk"
      [] f = "System" -> "system"
      [] f = "Module" -> "module"
      [] OTHER -> f

lower(text) == [i \in 1..Len(text) |-> LowerFragment(text[i])]

\* kw in text
Contains(text, kw) == \E i \in 1..Len(text) : text[i] = kw

\* RepoCandidate(name=..., url=..., description=..., stars=...)
RepoCandidate(name, url, description, stars) ==
    [name |-> name, url |-> url, description |-> description, stars |-> stars,
     match_score |-> 0, analysis_reason |-> <<>>]

\* _mock_search_github, lines 199-223
mock_search_github ==
    << RepoCandidate(<<"jeecg", "-boot-", "module", "-demo">>,
                     "https://github.com/jeecgboot/jeecg-boot.git",
                     <<"Official ", "Jeecg", "Boot demo ", "module",
                       ". Contains standard CRUD patterns.">>, 3500),
       RepoCandidate(<<"jeepay-payment-", "system">>,
                     "https://github.com/jeequan/jeepay.git",
                     <<"Open source payment ", "system",
                       ". High complexity, standalone app.">>, 1200),
       RepoCandidate(<<"stripe", "-java-", "sdk">>,
                     "https://github.com/stripe/stripe-java.git",
                     <<"Official ", "Stripe", " ", "SDK",
                       ". Low level library, not a ", "module", ".">>, 5000) >>

\* a JSON member that is absent, null, or has a value
Missing == [has |-> "missing", text |-> <<>>, url |-> None, n |-> 0]
Null == [has |-> "null", text |-> <<>>, url |-> None, n |-> 0]
Text(t) == [has |-> "value", text |-> t, url |-> None, n |-> 0]
Url(u) == [has |-> "value", text |-> <<>>, url |-> u, n |-> 0]
Num(n) == [has |-> "value", text |-> <<>>, url |-> None, n |-> n]

\* the items a search response is made of
ItemPool ==
    { [name |-> Text(<<"Stripe", "-pay">>), clone_url |-> Url("https://github.com/a/stripe-pay.git"),
       description |-> Null, stargazers_count |-> Missing],
      [name |-> Text(<<"jeecg", "-", "stripe", "-shop">>), clone_url |-> Url("https://github.com/b/shop.git"),
       description |-> Text(<<"Shop ", "System">>), stargazers_count |-> Num(7)],
      [name |-> Text(<<"jeecg", "-", "stripe", "-shop">>), clone_url |-> Url("https://github.com/e/shop.git"),
       description |-> Text(<<"Shop ", "System">>), stargazers_count |-> Num(2)],
      [name |-> Text(<<"jeecg", "-", "stripe", "-client">>), clone_url |-> Url("https://github.com/g/client.git"),
       description |-> Text(<<"Payment ", "SDK">>), stargazers_count |-> Num(5)],
      [name |-> Text(<<"blog">>), clone_url |-> Url("https://github.com/c/blog.git"),
       description |-> Text(<<"A blog ", "module">>), stargazers_count |-> Num(3)],
      [name |-> Null, clone_url |-> Url("https://github.com/d/anon.git"),
       description |-> Missing, stargazers_count |-> Num(1)] }

\* lists of distinct items, up to n long
ItemLists(n) ==
    UNION { { q \in [1..m -> ItemPool] : \A i, j \in 1..m : i # j => q[i] # q[j] } : m \in 0..n }

\* what 'await client.get(...)' can give: an exception, or a response whose
\* body has an items array or lacks it
SearchResponses ==
    { [exc |-> "ConnectError", status |-> 0, has_items |-> FALSE, items |-> <<>>],
      [exc |-> None, status |-> 403, has_items |-> FALSE, items |-> <<>>],
      [exc |-> None, status |-> 200, has_items |-> FALSE, items |-> <<>>] }
    \cup { [exc |-> None, status |-> 200, has_items |-> TRUE, items |-> q] : q \in ItemLists(MaxItems) }

NoSearch == [exc |-> None, status |-> 0, has_items |-> FALSE, items |-> <<>>]

\* pydantic accepts the field values of an item: name and url are str,
\* stars is int (absent: the default 0)
ValidItem(item) ==
    /\ item.name.has = "value"
    /\ item.clone_url.has = "value"
    /\ item.stargazers_count.has # "null"

\* lines 187-192: one item as a candidate
MapItem(item) ==
    RepoCandidate(item.name.text, item.clone_url.url,
                  IF item.description.has = "value" /\ item.description.text # <<>>
                  THEN item.description.text
                  ELSE <<"No description provided">>,
                  IF item.stargazers_count.has = "value" THEN item.stargazers_count.n ELSE 0)

\* lines 184-194: the loop over the items; an item pydantic rejects raises,
\* which line 195 turns into []
RECURSIVE MapItems(_, _)
MapItems(items, acc) ==
    IF items = <<>> THEN acc
    ELSE IF ~ValidItem(Head(items)) THEN <<>>
         ELSE MapItems(Tail(items), Append(acc, MapItem(Head(items))))

\* MapItems leaving out the items it cannot map
RECURSIVE MapItems_SkipInvalid(_, _)
MapItems_SkipInvalid(items, acc) ==
    IF items = <<>> THEN acc
    ELSE IF ~ValidItem(Head(items)) THEN MapItems_SkipInvalid(Tail(items), acc)
         ELSE MapItems_SkipInvalid(Tail(items), Append(acc, MapItem(Head(items))))

\* search_github_real returning what it mapped before the item that failed
search_github_real_Partial(resp) ==
    IF resp.exc # None \/ resp.status # 200 THEN <<>>
    ELSE MapItems_SkipInvalid(IF resp.has_items THEN resp.items ELSE <<>>, <<>>)

\* _search_github_real, lines 163-197
search_github_real(resp) ==
    IF resp.exc # None THEN <<>>
    ELSE IF resp.status # 200 THEN <<>>
         ELSE MapItems(IF resp.has_items THEN resp.items ELSE <<>>, <<>>)

\* the search without its fallback
discover_NoFallback(resp) == search_github_real(resp)

\* search_and_analyze, lines 35-39
discover(resp) ==
    IF search_github_real(resp) = <<>> THEN mock_search_github
    ELSE search_github_real(resp)

\* the numbers of _analyze_match and _evaluate_candidates_with_ai
BaseScore == 50
JeecgBonus == 30
SdkScore == 40
StripeBonus == 40
SystemPenalty == 10
DeepReadThreshold == 60
NativeBonus == 20
AiBonus == 10

\* a scorer that looks at the candidate's place in the list
analyze_heuristic_ByPosition(candidate, req) ==
    [score |-> BaseScore + analysed, reason |-> <<"Basic match.">>]

\* a stripe rule whose SDK branch lowers the score it finds by ten
StripeRule_SdkLowers(s1, desc_lower) ==
    IF Contains(desc_lower, "sdk")
    THEN [score |-> s1.score - 10,
          reason |-> <<"Low affinity: SDK library (requires wrapping).">>]
    ELSE [score |-> s1.score + StripeBonus,
          reason |-> <<"Good match: Payment implementation found.">>]

\* lines 241-246: the body of the stripe rule
StripeRule(s1, desc_lower) ==
    IF Contains(desc_lower, "sdk")
    THEN [score |-> SdkScore,
          reason |-> <<"Low affinity: SDK library (requires wrapping).">>]
    ELSE [score |-> s1.score + StripeBonus,
          reason |-> <<"Good match: Payment implementation found.">>]

\* _analyze_match, lines 229-251: the heuristic
analyze_heuristic(candidate, req) ==
    LET req_lower == lower(req)
        name_lower == lower(candidate.name)
        desc_lower == lower(candidate.description)
        s0 == [score |-> BaseScore, reason |-> <<"Basic match.">>]
        s1 == IF Contains(req_lower, "jeecg") /\ Contains(name_lower, "jeecg")
              THEN [score |-> s0.score + JeecgBonus,
                    reason |-> <<"High affinity: Jeecg module pattern detected.">>]
              ELSE s0
        s2 == IF Contains(req_lower, "stripe") /\ Contains(name_lower, "stripe")
              THEN StripeRule(s1, desc_lower)
              ELSE s1
        s3 == IF Contains(desc_lower, "system") /\ ~Contains(desc_lower, "module")
              THEN [score |-> s2.score - SystemPenalty,
                    reason |-> Append(s2.reason,
                        " Warning: Standalone system, migration might be complex.")]
              ELSE s2
    IN  s3

\* a deep read of every candidate
TriggersDeepRead_Always(score) == TRUE

\* line 254
TriggersDeepRead(score) == score >= DeepReadThreshold

\* a file of the mapping fetch_analysis_files returns: absent, or present with
\* a content that is a str (its fragments) or something else
NoFile == [present |-> FALSE, str |-> FALSE, text |-> <<>>]
File(text) == [present |-> TRUE, str |-> TRUE, text |-> text]
NotAStr == [present |-> TRUE, str |-> FALSE, text |-> <<>>]

Files(pom, pkg) == [exc |-> None, pom |-> pom, pkg |-> pkg]
NoFetch == [exc |-> "not called", pom |-> NoFile, pkg |-> NoFile]

\* what the call of fetch_analysis_files can give _analyze_match
FetchOutcomes ==
    { [exc |-> "Exception", pom |-> NoFile, pkg |-> NoFile],
      Files(NoFile, NoFile),
      Files(File(<<"<project/>">>), NoFile),
      Files(File(<<"<dependency>", "jeecg-boot-starter">>), NoFile),
      Files(File(<<"<dependency>", "mybatis-plus">>), NoFile),
      Files(File(<<"jeecg-boot-starter", "mybatis-plus">>), File(<<"{}">>)),
      Files(NoFile, File(<<"{}">>)),
      Files(File(<<"<project/>">>), NotAStr),
      Files(NotAStr, NoFile) }

\* the tags put one after the other, with nothing between them
Join_NoSeparator(tags) == tags

\* ', '.join(tags)
RECURSIVE Join(_)
Join(tags) ==
    IF Len(tags) <= 1 THEN tags
    ELSE <<Head(tags), ", ">> \o Join(Tail(tags))

\* lines 260-277: the body of the try block; exc is the exception that left it
DeepReadBody(score, reason, out) ==
    IF out.exc # None THEN [score |-> score, reason |-> reason, exc |-> out.exc]
    ELSE IF out.pom.present /\ ~out.pom.str
    THEN [score |-> score, reason |-> reason, exc |-> "TypeError"]
    ELSE
    LET starter == out.pom.present /\ Contains(out.pom.text, "jeecg-boot-starter")
        orm == out.pom.present /\ Contains(out.pom.text, "mybatis-plus")
        deep_insights ==
            (IF out.pom.present THEN <<"Maven">> ELSE <<>>)
            \o (IF starter THEN <<"Jeecg-Native">> ELSE <<>>)
            \o (IF orm THEN <<"MyBatis+">> ELSE <<>>)
            \o (IF out.pkg.present THEN <<"Node">> ELSE <<>>)
        score1 == IF starter THEN score + NativeBonus ELSE score
        reason1 == IF starter THEN Append(reason, " [Confirmed: Native Jeecg Dependency]")
                   ELSE reason
        reason2 == IF deep_insights # <<>>
                   THEN reason1 \o <<" (Deep Analysis: ">> \o Join(deep_insights) \o <<")">>
                   ELSE reason1
    IN  [score |-> score1, reason |-> reason2, exc |-> None]

\* the deep read without its except clause
DeepRead_NoHandler(score, reason, out) == DeepReadBody(score, reason, out)

\* lines 258-280: the try block with 'except Exception', which logs and goes on
DeepRead(score, reason, out) ==
    [DeepReadBody(score, reason, out) EXCEPT !.exc = None]

\* the list left in the order of the analysis
SortDesc_Unsorted(list) == list

\* a sort that keeps a candidate only when it beats the first of the list
InsertDesc_Drop(sorted, c) ==
    IF sorted = <<>> THEN <<c>>
    ELSE IF c.match_score > sorted[1].match_score THEN <<c>> \o sorted
         ELSE sorted

\* results.sort(key=lambda x: x.match_score, reverse=True): stable
RECURSIVE InsertDesc(_, _)
InsertDesc(sorted, c) ==
    IF sorted = <<>> THEN <<c>>
    ELSE IF Head(sorted).match_score >= c.match_score
         THEN <<Head(sorted)>> \o InsertDesc(Tail(sorted), c)
         ELSE <<c>> \o sorted

RECURSIVE SortDesc(_)
SortDesc(list) ==
    IF list = <<>> THEN <<>>
    ELSE InsertDesc(SortDesc(SubSeq(list, 1, Len(list) - 1)), list[Len(list)])

\* Python values a JSON member can parse to
PyInt(n) == [t |-> "int", v |-> n]
PyBool(b) == [t |-> "bool", v |-> IF b THEN 1 ELSE 0]
PyFloat(n) == [t |-> "float", v |-> n]
PyStr == [t |-> "str", v |-> 0]
PyNone == [t |-> "NoneType", v |-> 0]

\* the JSON value the message content holds: an object with or without the
\* members selected_index and reasoning, or an array
Decision(has_idx, idx, reasoning) ==
    [type |-> "object", has_idx |-> has_idx, idx |-> idx, reasoning |-> reasoning]
ArrayValue == [type |-> "array", has_idx |-> FALSE, idx |-> PyNone, reasoning |-> Missing]

\* the message content, piece by piece: the two code fences, line breaks,
\* JSON text, other text
Fence(f) == [tok |-> f, val |-> ArrayValue]
Json(val) == [tok |-> "json", val |-> val]
Plain(val) == <<Json(val)>>
Fenced(val) == <<Fence("fence json"), Fence("newline"), Json(val), Fence("newline"), Fence("fence")>>

Decisions ==
    { Decision(TRUE, i, r) :
        i \in {PyInt(n) : n \in -1..3} \cup {PyBool(TRUE), PyBool(FALSE), PyFloat(1), PyStr, PyNone},
        r \in {Text(<<"fits best">>), Missing} }
    \cup { Decision(FALSE, PyNone, Text(<<"fits best">>)), Decision(TRUE, PyInt(1), Null) }

Contents ==
    { Plain(d) : d \in Decisions }
    \cup { Fenced(Decision(TRUE, PyInt(n), Text(<<"fits best">>))) : n \in {0, 2} }
    \cup { Plain(ArrayValue), <<Fence("not json")>>, <<>>,
           <<Fence("fence"), Json(Decision(TRUE, PyInt(1), Missing)), Fence("fence"), Fence("thanks")>> }

\* what the reasoning service can answer: key says whether GEMINI_API_KEY is
\* set, exc is the exception of client.post (a timeout is one), json whether
\* resp.json() parses, shape what data["choices"][0]["message"]["content"] hits
AiResponse(key, exc, status, json, shape, content) ==
    [key |-> key, exc |-> exc, status |-> status, json |-> json, shape |-> shape,
     content |-> content]

AiResponses ==
    { AiResponse(FALSE, None, 0, FALSE, "ok", <<>>),
      AiResponse(TRUE, "ReadTimeout", 0, FALSE, "ok", <<>>),
      AiResponse(TRUE, None, 500, FALSE, "ok", <<>>),
      AiResponse(TRUE, None, 200, FALSE, "ok", <<>>),
      AiResponse(TRUE, None, 200, TRUE, "no choices", <<>>),
      AiResponse(TRUE, None, 200, TRUE, "empty choices", <<>>),
      AiResponse(TRUE, None, 200, TRUE, "not a dict", <<>>),
      AiResponse(TRUE, None, 200, TRUE, "content null", <<>>) }
    \cup { AiResponse(TRUE, None, 200, TRUE, "ok", c) : c \in Contents }

NoAiResponse == AiResponse(FALSE, None, 0, FALSE, "none", <<>>)

\* text.replace(<fence>json, "").replace(<fence>, ""), <fence> being three backquotes
RemoveFences(content) ==
    LET NotFence(x) == x.tok \notin {"fence json", "fence"}
    IN  SelectSeq(content, NotFence)

\* str.strip()
RECURSIVE strip(_)
strip(content) ==
    IF content = <<>> THEN <<>>
    ELSE IF Head(content).tok = "newline" THEN strip(Tail(content))
    ELSE IF content[Len(content)].tok = "newline" THEN strip(SubSeq(content, 1, Len(content) - 1))
    ELSE content

\* json.loads(text): the text must be one JSON value and nothing else
JsonLoads(text) ==
    IF Len(text) = 1 /\ text[1].tok = "json"
    THEN [exc |-> None, val |-> text[1].val]
    ELSE [exc |-> "JSONDecodeError", val |-> ArrayValue]

\* decision.get("selected_index")
SelectedIndex(decision) == IF decision.has_idx THEN decision.idx ELSE PyNone

\* decision.get("reasoning", "No reason provided."), as the f-string prints it
AiReason(decision) ==
    CASE decision.reasoning.has = "missing" -> <<"No reason provided.">>
      [] decision.reasoning.has = "null" -> <<"None">>
      [] OTHER -> decision.reasoning.text

\* the tag in place of the rationale
Tagged_Replace(reason, ai_reason) == <<"[AI SELECTED: ">> \o ai_reason \o <<"] ">>

\* line 145: the tag, then the rationale the candidate had
Tagged(reason, ai_reason) == <<"[AI SELECTED: ">> \o ai_reason \o <<"] ">> \o reason

\* lines 144-149 with the selected candidate swapped with the first
MoveToTop_Swap(list, i, ai_reason) ==
    LET selected == [list[i] EXCEPT
                        !.match_score = @ + AiBonus,
                        !.analysis_reason = <<"[AI SELECTED: ">> \o ai_reason \o <<"] ">> \o @]
    IN  [k \in 1..Len(list) |->
            IF k = 1 THEN selected ELSE IF k = i THEN list[1] ELSE list[k]]

\* lines 140-149: candidate number i (counted from 1) gets the bonus and the
\* tag, is popped and inserted at the front
MoveToTop(list, i, ai_reason) ==
    LET selected == [list[i] EXCEPT
                        !.match_score = @ + AiBonus,
                        !.analysis_reason = Tagged(@, ai_reason)]
    IN  <<selected>> \o SubSeq(list, 1, i - 1) \o SubSeq(list, i + 1, Len(list))

\* lines 106-151: the body of the two try blocks; exc is the exception that
\* left it, list the candidates as they are then
AiBody(list, resp) ==
    LET same(e) == [list |-> list, exc |-> e]
        parsed == JsonLoads(strip(RemoveFences(resp.content)))
        idx == SelectedIndex(parsed.val)
    IN  CASE resp.exc # None -> same(resp.exc)
          [] resp.status # 200 -> same(None)
          [] ~resp.json -> same("ValueError")
          [] resp.shape = "no choices" -> same("KeyError")
          [] resp.shape = "empty choices" -> same("IndexError")
          [] resp.shape = "not a dict" -> same("TypeError")
          [] resp.shape = "content null" -> same("AttributeError")
          [] parsed.exc # None -> same(parsed.exc)
          [] parsed.val.type # "object" -> same("AttributeError")
          [] idx.t = "NoneType" -> same(None)
          [] idx.t = "str" -> same("TypeError")
          [] ~(0 <= idx.v /\ idx.v < Len(list)) -> same(None)
          [] idx.t = "float" -> same("TypeError")
          [] OTHER -> [list |-> MoveToTop(list, idx.v + 1, AiReason(parsed.val)),
                       exc |-> None]

\* lines 73-76 and 106-125: without GEMINI_API_KEY the function returns
\* before it opens a client; with it, it calls client.post once
RequestsSent(resp) == IF resp.key THEN 1 ELSE 0

\* the evaluation without its two except clauses
evaluate_candidates_with_ai_NoHandler(list, resp) ==
    IF ~resp.key THEN [list |-> list, exc |-> None]
    ELSE AiBody(list, resp)

\* _evaluate_candidates_with_ai, lines 69-161: without a key nothing is sent;
\* line 153 catches KeyError, JSONDecodeError and IndexError, line 158 every
\* Exception, and line 161 returns the list
evaluate_candidates_with_ai(list, resp) ==
    IF ~resp.key THEN [list |-> list, exc |-> None]
    ELSE [AiBody(list, resp) EXCEPT !.exc = None]

\* the requirements a run is started with
Requirements ==
    { <<"jeecg", " ", "module", " for demo">>,
      <<"Stripe", " payment">>,
      <<"Jeecg", " shop with ", "stripe">>,
      <<"static site generator">> }

\* search_and_analyze, lines 28-41: the search, and the fallback to the mock
SearchPhase ==
    /\ spc = "start"
    /\ \E req \in Requirements, resp \in SearchResponses :
        /\ requirement' = req
        /\ searchResp' = resp
        /\ candidates' = discover(resp)
    /\ spc' = "analyze"
    /\ UNCHANGED <<analysed, heuristic, fetched, ranked, aiResp, raised, evals, posts,
                   nonScoutVars>>

\* lines 45-56: one turn of the loop, the call of _analyze_match (lines
\* 225-282) with what fetch_analysis_files gives when the deep read calls it
AnalyzeCandidate ==
    /\ spc = "analyze"
    /\ analysed < Len(candidates)
    /\ LET i == analysed + 1
           h == analyze_heuristic(candidates[i], requirement)
       IN  \E out \in FetchOutcomes \cup {NoFetch} :
             /\ TriggersDeepRead(h.score) = (out # NoFetch)
             /\ LET r == IF out = NoFetch THEN [score |-> h.score, reason |-> h.reason, exc |-> None]
                         ELSE DeepRead(h.score, h.reason, out)
                IN  /\ heuristic' = Append(heuristic, h)
                    /\ fetched' = Append(fetched, out)
                    /\ IF r.exc # None
                       THEN /\ raised' = r.exc
                            /\ spc' = "done"
                            /\ UNCHANGED candidates
                       ELSE /\ candidates' = [candidates EXCEPT ![i] =
                                                [@ EXCEPT !.match_score = r.score,
                                                          !.analysis_reason = r.reason]]
                            /\ UNCHANGED <<raised, spc>>
    /\ analysed' = analysed + 1
    /\ UNCHANGED <<requirement, searchResp, ranked, aiResp, evals, posts, nonScoutVars>>

\* line 59
SortPhase ==
    /\ spc = "analyze"
    /\ analysed = Len(candidates)
    /\ candidates' = SortDesc(candidates)
    /\ spc' = "evaluate"
    /\ UNCHANGED <<requirement, searchResp, analysed, heuristic, fetched, ranked, aiResp, raised,
                   evals, posts, nonScoutVars>>

\* lines 63-67: the call of _evaluate_candidates_with_ai and the return
EvaluatePhase ==
    /\ spc = "evaluate"
    /\ ranked' = candidates
    /\ IF candidates = <<>>
       THEN UNCHANGED <<candidates, aiResp, raised, evals, posts>>
       ELSE \E resp \in AiResponses :
              /\ aiResp' = resp
              /\ evals' = evals + 1
              /\ posts' = posts + RequestsSent(resp)
              /\ candidates' = evaluate_candidates_with_ai(candidates, resp).list
              /\ raised' = evaluate_candidates_with_ai(candidates, resp).exc
    /\ spc' = "done"
    /\ UNCHANGED <<requirement, searchResp, analysed, heuristic, fetched, nonScoutVars>>

ScoutInit ==
    /\ spc = "start"
    /\ requirement = <<>>
    /\ searchResp = NoSearch
    /\ candidates = <<>>
    /\ analysed = 0
    /\ heuristic = <<>>
    /\ fetched = <<>>
    /\ ranked = <<>>
    /\ aiResp = NoAiResponse
    /\ raised = None
    /\ evals = 0
    /\ posts = 0

ScoutStep ==
    \/ SearchPhase
    \/ AnalyzeCandidate
    \/ SortPhase
    \/ EvaluatePhase

(***************************************************************************)
(* Part III: TemplateManager.fetch_analysis_files                          *)
(*                                                                         *)
(* The call works in a temporary directory of its own; a file is known by  *)
(* its path from the root of the repository.                               *)
(***************************************************************************)
\* line 89
target_files == {"pom.xml", "package.json", "build.gradle", "README.md"}

\* the temporary directory: gone, or at a stage of its preparation, with
\* the files checked out in it
NoDir == [stage |-> "none", files |-> {}, unreadable |-> {}]
TempDir(stage, files, unreadable) == [stage |-> stage, files |-> files, unreadable |-> unreadable]
NoPull == [files |-> {}, unreadable |-> {}]

\* the repositories a URL can name: the files of their branch
Repos ==
    { {},
      {"pom.xml"},
      {"src/Main.java", "build.gradle"},
      {"pom.xml", "README.md", "src/Main.java"},
      {"package.json", "README.md"},
      target_files \cup {"src/Main.java"} }

\* a file that is there and cannot be read as text (a directory of that name)
Unreadable == {"README.md"}

\* a pull under core.sparseCheckout checks out the files the restriction
\* file names; without a restriction file it checks out every file
SparseCheckout(repo, restricted) ==
    IF restricted THEN repo \cap target_files ELSE repo

FNoResult == [kind |-> "none", keys |-> {}, err |-> None]
FReturned(keys) == [kind |-> "returned", keys |-> keys, err |-> None]
FRaised(err) == [kind |-> "raised", keys |-> {}, err |-> err]

\* the handlers with only the first of them
HandleFailure_TemplateErrorOnly(err) ==
    IF err = "TemplateError" THEN FReturned({}) ELSE FRaised(err)

\* lines 122-129: 'except TemplateError' and 'except Exception' both return {}
HandleFailure(err) == FReturned({})

\* lines 111-120: every target file that exists is read; a read that raises
\* is passed over (lines 117-118)
ReadFiles(ws) == { f \in target_files : f \in ws.files /\ f \notin ws.unreadable }

\* a temporary directory that is left behind
ExitTempDir_Keep(t) == t

\* line 91: leaving the 'with tempfile.TemporaryDirectory()' block removes
\* the directory, whichever way the block is left
ExitTempDir(t) == NoDir

Step(cmd, ok) == fcmds' = Append(fcmds, [cmd |-> cmd, ok |-> ok])

\* a step raised err: the handler's result, and the block is left
Fail(cmd, err) ==
    /\ Step(cmd, FALSE)
    /\ fres' = HandleFailure(err)
    /\ tmp' = ExitTempDir(tmp)
    /\ fpc' = "done"
    /\ UNCHANGED pulled

\* lines 80-92: the call, up to the creation of the temporary directory
FetchAnalysisFiles ==
    /\ fpc = "idle"
    /\ \A q \in Procs : pc[q] = "idle"
    /\ tmp' = TempDir("dir", {}, {})
    /\ fpc' = "init"
    /\ fcmds' = <<>>
    /\ fres' = FNoResult
    /\ pulled' = NoPull
    /\ fpre' = disk
    /\ UNCHANGED nonFetchVars

\* line 95
AnalysisInit ==
    /\ fpc = "init"
    /\ \/ /\ Step("init", TRUE)
          /\ tmp' = [tmp EXCEPT !.stage = "init"]
          /\ fpc' = "remote"
          /\ UNCHANGED <<fres, pulled>>
       \/ Fail("init", "TemplateError")
    /\ UNCHANGED <<fpre, nonFetchVars>>

\* line 96
AnalysisRemoteAdd ==
    /\ fpc = "remote"
    /\ \/ /\ Step("remote add", TRUE)
          /\ tmp' = [tmp EXCEPT !.stage = "remote"]
          /\ fpc' = "sparse"
          /\ UNCHANGED <<fres, pulled>>
       \/ Fail("remote add", "TemplateError")
    /\ UNCHANGED <<fpre, nonFetchVars>>

\* line 99
AnalysisSparseConfig ==
    /\ fpc = "sparse"
    /\ \/ /\ Step("config core.sparseCheckout", TRUE)
          /\ tmp' = [tmp EXCEPT !.stage = "sparse"]
          /\ fpc' = "write"
          /\ UNCHANGED <<fres, pulled>>
       \/ Fail("config core.sparseCheckout", "TemplateError")
    /\ UNCHANGED <<fpre, nonFetchVars>>

\* lines 100-103: the restriction file, written by open(), not by git
AnalysisSparseWrite ==
    /\ fpc = "write"
    /\ \/ /\ Step("write sparse-checkout", TRUE)
          /\ tmp' = [tmp EXCEPT !.stage = "restricted"]
          /\ fpc' = "pull"
          /\ UNCHANGED <<fres, pulled>>
       \/ Fail("write sparse-checkout", "OSError")
    /\ UNCHANGED <<fpre, nonFetchVars>>

\* line 108
AnalysisPull ==
    /\ fpc = "pull"
    /\ \/ \E repo \in Repos, rd \in BOOLEAN :
            LET files == SparseCheckout(repo, tmp.stage = "restricted")
                bad == IF rd THEN {} ELSE files \cap Unreadable
            IN  /\ rd \/ bad # {}
                /\ Step("pull", TRUE)
                /\ tmp' = TempDir("pulled", files, bad)
                /\ pulled' = [files |-> files, unreadable |-> bad]
                /\ fpc' = "read"
                /\ UNCHANGED fres
       \/ Fail("pull", "TemplateError")
    /\ UNCHANGED <<fpre, nonFetchVars>>

\* lines 110-120: the files are read, the mapping is returned and the block
\* is left
AnalysisRead ==
    /\ fpc = "read"
    /\ fres' = FReturned(ReadFiles(tmp))
    /\ tmp' = ExitTempDir(tmp)
    /\ fpc' = "done"
    /\ UNCHANGED <<pulled, fcmds, fpre, nonFetchVars>>

\* the call is over: the caller has its mapping
AnalysisReturn ==
    /\ fpc = "done"
    /\ fpc' = "idle"
    /\ tmp' = NoDir
    /\ pulled' = NoPull
    /\ fcmds' = <<>>
    /\ fres' = FNoResult
    /\ fpre' = EmptyCache
    /\ UNCHANGED nonFetchVars

AnalysisInitState ==
    /\ fpc = "idle"
    /\ tmp = NoDir
    /\ pulled = NoPull
    /\ fcmds = <<>>
    /\ fres = FNoResult
    /\ fpre = EmptyCache

AnalysisStep ==
    \/ FetchAnalysisFiles
    \/ AnalysisInit
    \/ AnalysisRemoteAdd
    \/ AnalysisSparseConfig
    \/ AnalysisSparseWrite
    \/ AnalysisPull
    \/ AnalysisRead
    \/ AnalysisReturn

(***************************************************************************)
(* Part IV: the service process (g3-engine/main.py)                        *)
(***************************************************************************)
\* bound on the number of tasks started
MaxTasks == 3

\* what can be found at REGISTRY_PATH
RegistryDocs == {"missing", "invalid json", "entry without key", "valid"}

\* os.path.exists(REGISTRY_PATH) / self.registry_path.exists()
DocExists(doc) == doc # "missing"

\* TemplateManager.__init__ and _load_registry, lines 23-43: the registry, or
\* the TemplateError the constructor raises
load_registry(doc) ==
    CASE ~DocExists(doc) -> [ok |-> FALSE, err |-> "TemplateError", msg |-> "Registry not found"]
      [] doc \in {"invalid json", "entry without key"} ->
             [ok |-> FALSE, err |-> "TemplateError", msg |-> "Failed to load registry"]
      [] OTHER -> [ok |-> TRUE, err |-> None, msg |-> ""]

TaskTypes == {"GENERATE", "SCOUT"}

Task(type, status, scheduled) == [type |-> type, status |-> status, scheduled |-> scheduled]

\* main.py, lines 34-41: the module initialisation; an exception of the
\* constructor is not caught and ends the import of the module
Startup ==
    /\ boot = "not started"
    /\ \E doc \in RegistryDocs :
        /\ registryDoc' = doc
        /\ IF DocExists(doc)
           THEN IF load_registry(doc).ok
                THEN scout_agent' = TRUE /\ boot' = "running"
                ELSE scout_agent' = FALSE /\ boot' = load_registry(doc).err
           ELSE scout_agent' = FALSE /\ boot' = "running"
    /\ UNCHANGED <<tasks, response, nonAppVars>>

\* start_task, lines 70-96: the task is entered in 'tasks' before the agent
\* is looked at
StartTask(type) ==
    /\ boot = "running"
    /\ Len(tasks) < MaxTasks
    /\ IF type = "SCOUT" /\ ~scout_agent
       THEN /\ tasks' = Append(tasks, Task(type, "RUNNING", FALSE))
            /\ response' = 500
       ELSE /\ tasks' = Append(tasks, Task(type, "RUNNING", TRUE))
            /\ response' = 200
    /\ UNCHANGED <<registryDoc, boot, scout_agent, nonAppVars>>

\* run_scout_task, lines 112-139: search_and_analyze returns its list
RunScoutTask(i) ==
    /\ boot = "running"
    /\ i \in 1..Len(tasks)
    /\ tasks[i] = Task("SCOUT", "RUNNING", TRUE)
    /\ tasks' = [tasks EXCEPT ![i].status = "COMPLETED"]
    /\ UNCHANGED <<registryDoc, boot, scout_agent, response, nonAppVars>>

\* run_g3_simulation, lines 146-186
RunG3Simulation(i) ==
    /\ boot = "running"
    /\ i \in 1..Len(tasks)
    /\ tasks[i] = Task("GENERATE", "RUNNING", TRUE)
    /\ tasks' = [tasks EXCEPT ![i].status = "COMPLETED"]
    /\ UNCHANGED <<registryDoc, boot, scout_agent, response, nonAppVars>>

AppInit ==
    /\ registryDoc = "unread"
    /\ boot = "not started"
    /\ scout_agent = FALSE
    /\ tasks = <<>>
    /\ response = 0

(***************************************************************************)
(* Specifications                                                          *)
(***************************************************************************)
vars == <<storeVars, scoutVars, fetchVars, appVars>>

Init == StoreInit /\ ScoutInit /\ AnalysisInitState /\ AppInit

\* the template manager, called by one caller at a time
Next ==
    \/ \E p \in Procs : SeqCall(p) \/ StoreStep(p)
    \/ AnalysisStep

Spec == Init /\ [][Next]_vars

\* the template cache, called by callers that run side by side: the code
\* takes no lock
ConcNext == \E p \in Procs : ConcCall(p) \/ StoreStep(p) \/ CwdMissing(p)

ConcSpec == Init /\ [][ConcNext]_vars

\* the template cache, called side by side for two different keys
IndepNext == \E p \in Procs : IndepCall(p) \/ StoreStep(p)

IndepSpec == Init /\ [][IndepNext]_vars

\* the template manager, with callers that can be interrupted
CancelNext == Next \/ \E p \in Procs : Interrupt(p)

CancelSpec == Init /\ [][CancelNext]_vars

\* one run of search_and_analyze
ScoutNext == ScoutStep

ScoutSpec == Init /\ [][ScoutNext]_vars

\* the service process: its start, and the tasks it is asked for
AppNext ==
    \/ Startup
    \/ \E type \in TaskTypes : StartTask(type)
    \/ \E i \in 1..MaxTasks : RunScoutTask(i) \/ RunG3Simulation(i)

AppSpec == Init /\ [][AppNext]_vars

\* one run of search_and_analyze in which every awaited call comes back:
\* the event loop resumes the coroutine after each of them
ScoutLiveSpec == ScoutSpec /\ WF_vars(ScoutNext)

(***************************************************************************)
(* Properties of TemplateManager                                           *)
(***************************************************************************)
Calling(p) == pc[p] # "idle"
Done(p) == pc[p] = "done"
Key(p) == arg[p].key
Supported(k) == k \in DOMAIN Registry /\ Registry[k].type = "git"
WasCached(p) == Exists(pre[p], Key(p))
Failed(p, cmd) == \E i \in 1..Len(cmds[p]) : cmds[p][i] = [cmd |-> cmd, ok |-> FALSE]
Ran(p, cmd) == \E i \in 1..Len(cmds[p]) : cmds[p][i].cmd = cmd
AnyFailed(p) == \E i \in 1..Len(cmds[p]) : ~cmds[p][i].ok
CmdNames(p) == [i \in 1..Len(cmds[p]) |-> cmds[p][i].cmd]

\* C1: when a download for a key that had no working copy fails in any of
\* its git commands (init, remote add, sparse-checkout configuration, pull),
\* the call raises and the key's cache directory does not exist afterwards,
\* so that the next call finds the key not cached.
C1_FetchFailureLeavesNoResidue ==
    \A p \in Procs :
        (Done(p) /\ Supported(Key(p)) /\ ~WasCached(p) /\ AnyFailed(p))
            => /\ res[p].kind = "TemplateError"
               /\ ~Exists(disk, Key(p))
               /\ CacheBranch(Exists(disk, Key(p)), FALSE) = "fetch"

\* C2: a call without force_update for a key whose working copy exists runs
\* no git command and leaves the cache as it was; when the call before it
\* was such a call for the same key, both give the same result.
C2_CacheHitIdempotent ==
    \A p \in Procs :
        (Calling(p) /\ Supported(Key(p)) /\ WasCached(p) /\ ~arg[p].force)
            => /\ cmds[p] = <<>>
               /\ disk = pre[p]
               /\ (Done(p) /\ prev.key = Key(p) /\ prev.cached /\ ~prev.force)
                     => res[p] = prev.res

C2_Witness ==
    \E p \in Procs :
        /\ Done(p) /\ Supported(Key(p)) /\ WasCached(p) /\ ~arg[p].force
        /\ prev.key = Key(p) /\ prev.cached /\ ~prev.force
        /\ res[p].kind = "path"
        /\ disk[Key(p)].stage = "pulled"

\* C3 as stated: every successful call with force_update runs exactly one
\* fetch and then one reset, whether the key had a working copy or not.
C3_ForceAlwaysFetchReset ==
    \A p \in Procs :
        (Done(p) /\ Supported(Key(p)) /\ arg[p].force /\ res[p].kind = "path")
            => CmdNames(p) = <<"fetch", "reset">>

\* C3 amended: a call with force_update runs one fetch, followed by one
\* reset when the fetch succeeded, only for a key whose cache directory
\* existed; for a key without one it runs the download (init, remote add,
\* sparse configuration when there is a sub-path, one pull) and neither
\* fetch nor reset.
C3_ForceUpdateOnlyWhenCached ==
    \A p \in Procs :
        (Done(p) /\ Supported(Key(p)) /\ arg[p].force)
            => IF WasCached(p)
               THEN \/ CmdNames(p) = <<"fetch", "reset">> /\ cmds[p][1].ok
                    \/ CmdNames(p) = <<"fetch">> /\ ~cmds[p][1].ok
               ELSE /\ ~Ran(p, "fetch") /\ ~Ran(p, "reset")
                    /\ cmds[p] # <<>> /\ cmds[p][1].cmd = "init"
                    /\ res[p].kind = "path" =>
                          CmdNames(p) \in {<<"init", "remote add", "pull">>,
                                           <<"init", "remote add",
                                             "config core.sparseCheckout", "pull">>}

C3_Witness ==
    \E p \in Procs :
        /\ Done(p) /\ Supported(Key(p)) /\ arg[p].force /\ ~WasCached(p)
        /\ res[p].kind = "path" /\ Ran(p, "pull")
        /\ prev.force /\ prev.cached /\ prev.res.kind = "path"

\* C4: for an entry with a sub-path, a call that returns gives exactly
\* <cache dir>/<key>/<sub_path>, and that path exists; when no step failed
\* and the sub-path is missing, the call raises an error naming the key and
\* the sub-path; for an entry without sub-path it gives <cache dir>/<key>.
C4_ReturnedPathIsSubPath ==
    \A p \in Procs :
        (Done(p) /\ Supported(Key(p))) =>
            LET sub == Registry[Key(p)].sub_path
                wc == disk[Key(p)]
            IN  /\ (res[p].kind = "path" /\ sub # None) =>
                      /\ res[p].path = <<CacheDir, Key(p), sub>>
                      /\ wc # Absent /\ wc.tree.sub
                /\ (res[p].kind = "path" /\ sub = None) =>
                      /\ res[p].path = <<CacheDir, Key(p)>>
                      /\ wc # Absent
                /\ (sub # None /\ ~AnyFailed(p) /\ res[p].kind # "OSError"
                      /\ ~(wc # Absent /\ wc.tree.sub)) =>
                      /\ res[p].kind = "TemplateError"
                      /\ res[p].key = Key(p)
                      /\ res[p].detail = sub

C4_Witness ==
    \E p \in Procs :
        /\ Done(p) /\ Key(p) = "jeecg-demo-local"
        /\ res[p].kind = "path" /\ Len(res[p].path) = 3
        /\ prev.key = Key(p) /\ prev.res.kind = "TemplateError"
        /\ prev.res.detail = "jeecg-module-demo"

\* C5: when the fetch of a forced update fails, the call raises the git
\* error, no reset is run, the working copy is as it was before the call,
\* and a later call without force_update finds the key cached.
C5_FailedFetchKeepsCopy ==
    \A p \in Procs :
        (Calling(p) /\ Supported(Key(p)) /\ arg[p].force /\ WasCached(p)
            /\ Failed(p, "fetch"))
            => /\ Done(p)
               /\ res[p] = TemplateError("Git command failed", Key(p), "fetch")
               /\ ~Ran(p, "reset")
               /\ disk = pre[p]
               /\ Exists(disk, Key(p))
               /\ CacheBranch(Exists(disk, Key(p)), FALSE) = "hit"

C5_Witness ==
    \E p \in Procs :
        /\ Done(p) /\ Supported(Key(p)) /\ arg[p].force /\ WasCached(p)
        /\ Failed(p, "fetch")
        /\ disk[Key(p)].stage = "pulled"

\* C6: a call for a key the registry lacks, or whose entry is not of type
\* git, raises a TemplateError at once and changes nothing: it runs no git
\* command, creates no directory and leaves every working copy as it was.
C6_InvalidKeyNoEffect ==
    \A p \in Procs :
        (Calling(p) /\ (Key(p) \notin DOMAIN Registry \/ Registry[Key(p)].type # "git"))
            => /\ Done(p)
               /\ res[p].kind = "TemplateError"
               /\ res[p].err \in {"not defined in registry", "Unsupported template type"}
               /\ cmds[p] = <<>>
               /\ disk = pre[p]
               /\ ~Exists(disk, Key(p))

C6_Witness ==
    \E p \in Procs :
        /\ Done(p) /\ Key(p) = "zip-pack"
        /\ res[p].err = "Unsupported template type"
        /\ disk["plain-repo"].stage = "pulled"
        /\ prev.key = "unknown-key" /\ prev.res.err = "not defined in registry"

(***************************************************************************)
(* Properties of RepoScoutAgent                                            *)
(***************************************************************************)
\* the reasoning service answered 200 with a chat completion whose content
\* is the JSON object d, bare or inside a code fence
Answered(d) ==
    /\ aiResp.key /\ aiResp.exc = None /\ aiResp.status = 200
    /\ aiResp.json /\ aiResp.shape = "ok"
    /\ aiResp.content \in {Plain(d), Fenced(d)}

ValidIndex(d, n) ==
    d.type = "object" /\ d.has_idx /\ d.idx.t = "int" /\ 0 <= d.idx.v /\ d.idx.v < n

ReasonGiven(d) ==
    CASE d.reasoning.has = "value" -> d.reasoning.text
      [] d.reasoning.has = "null" -> <<"None">>
      [] OTHER -> <<"No reason provided.">>

\* C7: when the service answers 200 with a selected_index i that is an
\* integer with 0 <= i < length, the list returned is the list handed in
\* with candidate i at the front and the others in their order; that
\* candidate's score is 10 higher and its rationale has the tag with the
\* service's reasoning in front; nothing else changes, nothing is re-sorted.
C7_StablePromotion ==
    spc = "done" =>
        \A d \in Decisions :
            (Answered(d) /\ ValidIndex(d, Len(ranked))) =>
                LET i == d.idx.v + 1
                IN  /\ Len(candidates) = Len(ranked)
                    /\ candidates[1].name = ranked[i].name
                    /\ candidates[1].url = ranked[i].url
                    /\ candidates[1].description = ranked[i].description
                    /\ candidates[1].stars = ranked[i].stars
                    /\ candidates[1].match_score = ranked[i].match_score + 10
                    /\ candidates[1].analysis_reason =
                          <<"[AI SELECTED: ">> \o ReasonGiven(d) \o <<"] ">>
                              \o ranked[i].analysis_reason
                    /\ \A k \in 1..Len(ranked) :
                          /\ k < i => candidates[k + 1] = ranked[k]
                          /\ k > i => candidates[k] = ranked[k]

C7_Witness ==
    /\ spc = "done"
    /\ Len(ranked) = 3
    /\ Answered(Decision(TRUE, PyInt(2), Text(<<"fits best">>)))
    /\ aiResp.content = Fenced(Decision(TRUE, PyInt(2), Text(<<"fits best">>)))
    /\ candidates[1].name = ranked[3].name
    /\ candidates[1].match_score < candidates[2].match_score
    /\ ranked[1].match_score > ranked[2].match_score

\* C8: in every case of no adjudication the list returned is the list
\* handed in, order, scores and rationales unchanged, and nothing is raised:
\* empty list, no credential, transport error or timeout, status other than
\* 200, a body without the chat-completion fields, a content that is no
\* JSON object, a selected_index that is absent, negative, >= the length,
\* or not an integer.
NoAdjudication ==
    \/ ranked = <<>>
    \/ ~aiResp.key
    \/ aiResp.exc # None
    \/ aiResp.status # 200
    \/ ~aiResp.json
    \/ aiResp.shape # "ok"
    \/ \A d \in Decisions : ~Answered(d)
    \/ \E d \in Decisions : Answered(d) /\ ~ValidIndex(d, Len(ranked))

C8_NoAdjudicationLeavesList ==
    (spc = "done" /\ NoAdjudication) => (candidates = ranked /\ raised = None)

\* what pydantic accepts of an item
Clean(item) ==
    /\ item.name.has = "value"
    /\ item.clone_url.has = "value"
    /\ item.stargazers_count.has \in {"value", "missing"}

SearchSucceeded ==
    /\ searchResp.exc = None /\ searchResp.status = 200
    /\ searchResp.has_items /\ searchResp.items # <<>>
    /\ \A i \in 1..Len(searchResp.items) : Clean(searchResp.items[i])

\* C9: the list that enters the analysis is either the search response's
\* items, one candidate per item in their order (the search answered 200
\* with at least one item and every item maps), or exactly the three
\* built-in candidates (any other outcome); never a mixture, never empty.
C9_RealOrFallback ==
    (spc = "analyze" /\ analysed = 0) =>
        /\ candidates # <<>>
        /\ IF SearchSucceeded
           THEN /\ Len(candidates) = Len(searchResp.items)
                /\ \A i \in 1..Len(candidates) :
                      /\ candidates[i].name = searchResp.items[i].name.text
                      /\ candidates[i].url = searchResp.items[i].clone_url.url
                      /\ candidates[i].description =
                            IF searchResp.items[i].description.has = "value"
                            THEN searchResp.items[i].description.text
                            ELSE <<"No description provided">>
                      /\ candidates[i].stars = searchResp.items[i].stargazers_count.n
           ELSE /\ Len(candidates) = 3
                /\ candidates = mock_search_github
                /\ candidates[1].url = "https://github.com/jeecgboot/jeecg-boot.git"
                /\ candidates[2].url = "https://github.com/jeequan/jeepay.git"
                /\ candidates[3].url = "https://github.com/stripe/stripe-java.git"

C9_Witness ==
    /\ spc = "analyze" /\ analysed = 0
    /\ searchResp.status = 200
    /\ Len(searchResp.items) = 2
    /\ Clean(searchResp.items[1]) /\ ~Clean(searchResp.items[2])
    /\ Len(candidates) = 3

\* the call of fetch_analysis_files failed: it raised, or gave the empty
\* mapping it gives for every failure of its own
FetchFailed(out) ==
    \/ out.exc = "Exception"
    \/ out.exc = None /\ ~out.pom.present /\ ~out.pkg.present

\* C10: the deep read raises nothing to search_and_analyze, whatever the
\* fetch gives (an exception, an empty mapping, files of any content); when
\* the fetch raised or failed, score and rationale of the candidate are the
\* ones the heuristic gave.
C10_DeepReadNeverRaises ==
    /\ raised = None
    /\ spc = "done" => analysed = Len(candidates)
    /\ spc = "analyze" =>
          \A i \in 1..analysed :
              FetchFailed(fetched[i]) =>
                  /\ candidates[i].match_score = heuristic[i].score
                  /\ candidates[i].analysis_reason = heuristic[i].reason

C10_Witness ==
    /\ spc = "analyze"
    /\ \E i, j \in 1..analysed :
          /\ fetched[i].exc = "Exception"
          /\ heuristic[i].score >= 60
          /\ fetched[j] = Files(NotAStr, NoFile)
          /\ candidates[j].match_score = heuristic[j].score

JeecgRequirement == <<"jeecg", " ", "module", " for demo">>
ZeroItems == [exc |-> None, status |-> 200, has_items |-> TRUE, items |-> <<>>]

\* C12: with the requirement "jeecg module for demo", a search that answers
\* with zero items and no GEMINI_API_KEY, the run ends with the three
\* built-in candidates, the jeecg one has the heuristic score 50 + 30 and is
\* the first of the list returned, whatever the file fetch gave.
C12_JeecgFirstEndToEnd ==
    (/\ spc = "done"
     /\ requirement = JeecgRequirement
     /\ searchResp = ZeroItems
     /\ ~aiResp.key)
        => /\ Len(candidates) = 3
           /\ { candidates[i].url : i \in 1..3 } =
                 { "https://github.com/jeecgboot/jeecg-boot.git",
                   "https://github.com/jeequan/jeepay.git",
                   "https://github.com/stripe/stripe-java.git" }
           /\ candidates[1].url = "https://github.com/jeecgboot/jeecg-boot.git"
           /\ Contains(candidates[1].name, "jeecg")
           /\ heuristic[1].score = 50 + 30
           /\ candidates[1].match_score >= 80
           /\ \A i \in 2..3 : candidates[i].match_score < 80
           /\ raised = None

C12_Witness ==
    /\ spc = "done"
    /\ requirement = JeecgRequirement
    /\ searchResp = ZeroItems
    /\ ~aiResp.key
    /\ fetched[1].exc = "Exception"
    /\ candidates[1].url = "https://github.com/jeecgboot/jeecg-boot.git"
    /\ candidates[1].match_score = 80

\* C13: a run of search_and_analyze in which every awaited call returns or
\* fails comes to its end, and it raises nothing, whatever the search, the
\* file fetches and the reasoning service did: it returns its list.
C13_RunCompletesNeverRaises ==
    /\ <>[](spc = "done" /\ raised = None /\ analysed = Len(candidates))
    /\ [](raised = None)

C13_Witness ==
    /\ spc = "done"
    /\ raised = None
    /\ searchResp.exc = "ConnectError"
    /\ \E i \in 1..Len(fetched) : fetched[i].exc = "Exception"
    /\ aiResp.key /\ aiResp.exc = "ReadTimeout"
    /\ Len(candidates) = 3

(***************************************************************************)
(* Properties of fetch_analysis_files                                      *)
(***************************************************************************)
StepFailed == \E i \in 1..Len(fcmds) : ~fcmds[i].ok
StepNames == [i \in 1..Len(fcmds) |-> fcmds[i].cmd]

\* C14 as stated: when a step fails the call returns the empty mapping and
\* raises nothing; when none fails, the keys of the mapping returned are
\* exactly the target files that exist in the temporary directory after the
\* pull.
C14_KeysAreExistingFiles ==
    fpc = "done" =>
        /\ fres.kind = "returned"
        /\ StepFailed => fres.keys = {}
        /\ ~StepFailed => fres.keys = target_files \cap pulled.files

\* C14, amended: when a step fails (init, remote add, sparse-checkout
\* configuration, writing the restriction file, pull) the call returns the
\* empty mapping and raises nothing; when none fails, the keys of the
\* mapping returned are exactly the target files that exist in the temporary
\* directory after the pull and could be read: a file that exists and whose
\* read raises is left out, and a file that is absent is never a key.
C14_KeysAreReadableFiles ==
    fpc = "done" =>
        /\ fres.kind = "returned"
        /\ StepFailed => fres.keys = {}
        /\ ~StepFailed =>
              /\ fres.keys = (target_files \cap pulled.files) \ pulled.unreadable
              /\ fres.keys \subseteq pulled.files

C14_Witness ==
    /\ fpc = "done" /\ ~StepFailed
    /\ pulled.files = {"pom.xml", "README.md"}
    /\ pulled.unreadable = {"README.md"}
    /\ fres = FReturned({"pom.xml"})

\* C15: from its start to its end a call of fetch_analysis_files leaves the
\* cache as it found it (the same keys with the same working copies), and
\* when the call ends, with a mapping read or after a failed step, its
\* temporary directory is gone.
C15_CacheUntouchedWorkspaceGone ==
    /\ fpc # "idle" => disk = fpre
    /\ fpc = "done" => tmp = NoDir
    /\ fpc \in {"init", "remote", "sparse", "write", "pull", "read"} => tmp # NoDir

C15_Witness ==
    /\ fpc = "done" /\ tmp = NoDir
    /\ StepFailed /\ Len(fcmds) = 5
    /\ disk["plain-repo"].stage = "pulled"
    /\ disk["jeecg-demo-local"].stage = "init"
    /\ disk = fpre

(***************************************************************************)
(* Order of the commands                                                   *)
(***************************************************************************)
Prefix(a, b) == Len(a) <= Len(b) /\ a = SubSeq(b, 1, Len(a))
Pulls(names) == Cardinality({ i \in 1..Len(names) : names[i] = "pull" })
FailuresLast(log) == \A i \in 1..Len(log) : i < Len(log) => log[i].ok

DownloadOrder(k) ==
    IF Registry[k].sub_path # None
    THEN <<"init", "remote add", "config core.sparseCheckout", "pull">>
    ELSE <<"init", "remote add", "pull">>

AnalysisOrder ==
    <<"init", "remote add", "config core.sparseCheckout", "write sparse-checkout", "pull">>

\* C19: a download into the cache runs init, remote add, then, for an entry
\* with a sub_path, the sparse-checkout configuration and the writing of the
\* restriction file, then one pull; fetch_analysis_files runs init, remote
\* add, the configuration, the writing of the restriction file, then one
\* pull. The pull starts only when the restriction is written, no command
\* follows a failed one, and there is never a second pull.
C19_RestrictionBeforeSinglePull ==
    /\ \A p \in Procs :
          (Calling(p) /\ Supported(Key(p)) /\ ~WasCached(p)) =>
              /\ Prefix(CmdNames(p), DownloadOrder(Key(p)))
              /\ FailuresLast(cmds[p])
              /\ Pulls(CmdNames(p)) <= 1
              /\ pc[p] = "pull" =>
                    disk[Key(p)].stage =
                        IF Registry[Key(p)].sub_path # None THEN "restricted" ELSE "remote"
              /\ res[p].kind = "path" => CmdNames(p) = DownloadOrder(Key(p))
    /\ fpc # "idle" =>
          /\ Prefix(StepNames, AnalysisOrder)
          /\ FailuresLast(fcmds)
          /\ Pulls(StepNames) <= 1
          /\ fpc = "pull" => tmp.stage = "restricted"
          /\ fpc = "read" => StepNames = AnalysisOrder

C19_Witness ==
    \E p \in Procs :
        /\ Done(p) /\ Key(p) = "jeecg-demo-local" /\ ~WasCached(p)
        /\ res[p].kind = "path"
        /\ CmdNames(p) = <<"init", "remote add", "config core.sparseCheckout", "pull">>
        /\ prev.key = "plain-repo" /\ prev.res.kind = "path"

(***************************************************************************)
(* Concurrency, interruption, configuration                                *)
(***************************************************************************)
InDownload(p) == pc[p] \in {"init", "remote", "sparse", "write", "pull"}
InUpdate(p) == pc[p] \in {"fetch", "reset"}
CacheHit(p) ==
    /\ pc[p] \in {"resolve", "done"}
    /\ Supported(Key(p)) /\ ~arg[p].force /\ cmds[p] = <<>>
    /\ res[p].kind \in {"none", "path"}

\* C16: calls of get_template_path for one key take their turns: no two of
\* them are at once in the steps of a download or of an update of that key's
\* directory, and no call takes the directory for a cached copy (and returns
\* its path) while the download of another call has made the directory and
\* its pull is not over.
C16_SameKeySerialized ==
    \A p, q \in Procs :
        (p # q /\ Calling(p) /\ Calling(q) /\ Key(p) = Key(q)) =>
            /\ ~((InDownload(p) \/ InUpdate(p)) /\ (InDownload(q) \/ InUpdate(q)))
            /\ ~(CacheHit(p) /\ InDownload(q) /\ disk[Key(q)].stage # "pulled")

\* C17: when a call is interrupted in a download, after the directory was
\* made and before the pull was over, the directory of the key is removed,
\* so that no later call finds the key cached.
C17_InterruptedDownloadCleansUp ==
    \A p \in Procs :
        (Done(p) /\ res[p].kind = "KeyboardInterrupt" /\ ~WasCached(p))
            => ~Exists(disk, Key(p))

\* C18: with a registry document that is missing or malformed the
\* construction of the TemplateManager fails with a TemplateError, the
\* process runs nevertheless, and every SCOUT task asked for is accepted and
\* run (without the deep read).
C18_DegradedModeWithoutRegistry ==
    (boot # "not started" /\ registryDoc # "valid") =>
        /\ ~load_registry(registryDoc).ok
        /\ load_registry(registryDoc).err = "TemplateError"
        /\ boot = "running"
        /\ \A i \in 1..Len(tasks) : tasks[i].type = "SCOUT" => tasks[i].scheduled
        /\ response # 500

\* C20: fetch_analysis_files is called for a candidate exactly when the
\* heuristic score of that candidate is 60 or more, and the loop comes to
\* every candidate once, so there is at most one call per candidate.
C20_DeepReadIffThreshold ==
    /\ Len(fetched) = analysed
    /\ analysed <= Len(candidates)
    /\ \A i \in 1..analysed :
          (fetched[i] # NoFetch) <=> (heuristic[i].score >= 60)

C20_Witness ==
    /\ spc = "analyze" /\ analysed = 3
    /\ fetched[1] # NoFetch /\ heuristic[1].score = 80
    /\ fetched[2] = NoFetch /\ heuristic[2].score = 40
    /\ fetched[3] = NoFetch /\ heuristic[3].score = 50

(***************************************************************************)
(* Properties of the deep read, of the order of the stages, of the scores  *)
(***************************************************************************)
\* the deep read of candidate i went through: the fetch gave a mapping and
\* the manifest, if there is one, is a text
DeepReadDone(i) ==
    /\ fetched[i] # NoFetch /\ fetched[i].exc = None
    /\ fetched[i].pom.present => fetched[i].pom.str

HasStarter(i) ==
    DeepReadDone(i) /\ fetched[i].pom.present
        /\ \E k \in 1..Len(fetched[i].pom.text) : fetched[i].pom.text[k] = "jeecg-boot-starter"

HasOrm(i) ==
    DeepReadDone(i) /\ fetched[i].pom.present
        /\ \E k \in 1..Len(fetched[i].pom.text) : fetched[i].pom.text[k] = "mybatis-plus"

TagsOf(i) ==
    (IF DeepReadDone(i) /\ fetched[i].pom.present THEN <<"Maven">> ELSE <<>>)
    \o (IF HasStarter(i) THEN <<"Jeecg-Native">> ELSE <<>>)
    \o (IF HasOrm(i) THEN <<"MyBatis+">> ELSE <<>>)
    \o (IF DeepReadDone(i) /\ fetched[i].pkg.present THEN <<"Node">> ELSE <<>>)

CommaJoined(tags) ==
    [k \in 1..(2 * Len(tags) - 1) |-> IF k % 2 = 1 THEN tags[(k + 1) \div 2] ELSE ", "]

SummaryOf(i) ==
    IF TagsOf(i) = <<>> THEN <<>>
    ELSE <<" (Deep Analysis: ">> \o CommaJoined(TagsOf(i)) \o <<")">>

\* C21: the deep read adds 20 to the score when a pom.xml was fetched and
\* has the starter substring, and changes the score in no other case: a
\* pom.xml without the substring, the ORM substring and a package.json give
\* a tag each and leave the score; the tags come at the end of the
\* rationale, after the confirmation note, as one summary in parentheses,
\* joined by commas, and there is no summary when there is no tag.
C21_DeepReadScoreAndTags ==
    spc = "analyze" =>
        \A i \in 1..analysed :
            /\ candidates[i].match_score =
                  heuristic[i].score + (IF HasStarter(i) THEN 20 ELSE 0)
            /\ candidates[i].analysis_reason =
                  heuristic[i].reason
                  \o (IF HasStarter(i) THEN <<" [Confirmed: Native Jeecg Dependency]">> ELSE <<>>)
                  \o SummaryOf(i)

C21_Witness ==
    /\ spc = "analyze" /\ analysed = 2
    /\ fetched[1] = Files(File(<<"jeecg-boot-starter", "mybatis-plus">>), File(<<"{}">>))
    /\ candidates[1].match_score = heuristic[1].score + 20
    /\ TagsOf(1) = <<"Maven", "Jeecg-Native", "MyBatis+", "Node">>
    /\ fetched[2] = Files(File(<<"<dependency>", "mybatis-plus">>), NoFile)
    /\ candidates[2].match_score = heuristic[2].score
    /\ TagsOf(2) = <<"Maven", "MyBatis+">>

SortedDesc(list) ==
    \A i \in 1..Len(list) : i < Len(list) => list[i].match_score >= list[i + 1].match_score

\* C22: _evaluate_candidates_with_ai is called at most once in a run, when
\* every candidate has been through the heuristic and the deep read, and
\* the list it is given is in descending order of score; at most one
\* request goes to the reasoning service, and none without GEMINI_API_KEY.
C22_OneEvaluationOfSortedList ==
    /\ evals <= 1 /\ posts <= evals
    /\ evals = 1 <=> spc = "done"
    /\ evals = 1 =>
          /\ analysed = Len(ranked) /\ Len(heuristic) = Len(ranked) /\ Len(fetched) = Len(ranked)
          /\ SortedDesc(ranked)
          /\ posts = 1 <=> aiResp.key
    /\ evals = 0 => ranked = <<>> /\ aiResp = NoAiResponse

C22_Witness ==
    /\ spc = "done" /\ evals = 1 /\ posts = 0
    /\ ~aiResp.key
    /\ Len(ranked) = 2
    /\ ranked[1].match_score > ranked[2].match_score
    /\ ranked[1].url = discover(searchResp)[2].url

\* the positions of a list, reordered as a stable descending sort by key
\* reorders them
RECURSIVE InsertByKey(_, _, _)
InsertByKey(sorted, i, key) ==
    IF sorted = <<>> THEN <<i>>
    ELSE IF key[sorted[1]] < key[i] THEN <<i>> \o sorted
         ELSE <<sorted[1]>> \o InsertByKey(Tail(sorted), i, key)

RECURSIVE StableSortByKey(_, _)
StableSortByKey(order, key) ==
    IF order = <<>> THEN <<>>
    ELSE InsertByKey(StableSortByKey(SubSeq(order, 1, Len(order) - 1), key),
                     order[Len(order)], key)

\* the score of the i-th discovered candidate after the heuristic, and after
\* its deep read when it had one
HeuristicScore == [i \in 1..Len(heuristic) |-> heuristic[i].score]
UpdatedScore ==
    [i \in 1..Len(heuristic) |->
        IF fetched[i] = NoFetch THEN heuristic[i].score
        ELSE DeepRead(heuristic[i].score, heuristic[i].reason, fetched[i]).score]

\* heuristic for all, sort, deep read, sort again
StagedOrder ==
    StableSortByKey(
        StableSortByKey([i \in 1..Len(heuristic) |-> i], HeuristicScore),
        UpdatedScore)

\* C23: the list handed to _evaluate_candidates_with_ai is in the order that
\* scoring every candidate, sorting, deep-reading and sorting again gives,
\* ties included.
C23_OrderEqualsStagedOrder ==
    (spc = "done" /\ raised = None) =>
        /\ Len(StagedOrder) = Len(ranked)
        /\ \A i \in 1..Len(ranked) : ranked[i].url = discover(searchResp)[StagedOrder[i]].url

\* which rules of the heuristic match the i-th discovered candidate
Discovered(i) == discover(searchResp)[i]
JeecgRule(i) ==
    Contains(lower(requirement), "jeecg") /\ Contains(lower(Discovered(i).name), "jeecg")
StripeMatch(i) ==
    Contains(lower(requirement), "stripe") /\ Contains(lower(Discovered(i).name), "stripe")
SdkBranch(i) == StripeMatch(i) /\ Contains(lower(Discovered(i).description), "sdk")
PenaltyRule(i) ==
    /\ Contains(lower(Discovered(i).description), "system")
    /\ ~Contains(lower(Discovered(i).description), "module")

\* C24: the heuristic applies the jeecg rule, then the stripe rule, then the
\* structural penalty: the SDK branch sets the score to 40 and replaces the
\* rationale whatever the jeecg rule gave, a stripe match otherwise adds 40,
\* the penalty subtracts 10 from the result and appends its warning, and
\* with no rule matching the result is 50 and "Basic match.".
C24_HeuristicRuleOrder ==
    \A i \in 1..Len(heuristic) :
        LET before == IF SdkBranch(i) THEN 40
                      ELSE 50 + (IF JeecgRule(i) THEN 30 ELSE 0)
                              + (IF StripeMatch(i) THEN 40 ELSE 0)
            head == IF SdkBranch(i) THEN "Low affinity: SDK library (requires wrapping)."
                    ELSE IF StripeMatch(i) THEN "Good match: Payment implementation found."
                    ELSE IF JeecgRule(i) THEN "High affinity: Jeecg module pattern detected."
                    ELSE "Basic match."
        IN  /\ heuristic[i].score = before - (IF PenaltyRule(i) THEN 10 ELSE 0)
            /\ heuristic[i].reason =
                  <<head>> \o (IF PenaltyRule(i)
                               THEN <<" Warning: Standalone system, migration might be complex.">>
                               ELSE <<>>)

C24_Witness ==
    /\ Len(heuristic) = 2
    /\ JeecgRule(1) /\ SdkBranch(1) /\ ~PenaltyRule(1)
    /\ heuristic[1].score = 40
    /\ JeecgRule(2) /\ StripeMatch(2) /\ ~SdkBranch(2) /\ PenaltyRule(2)
    /\ heuristic[2].score = 110

\* a is a contiguous part of b; a is the beginning of b; a is the end of b
IsInfix(a, b) ==
    \E k \in 0..Len(b) : k + Len(a) <= Len(b) /\ SubSeq(b, k + 1, k + Len(a)) = a
IsPrefix(a, b) == Len(a) <= Len(b) /\ SubSeq(b, 1, Len(a)) = a
IsSuffix(a, b) == Len(a) <= Len(b) /\ SubSeq(b, Len(b) - Len(a) + 1, Len(b)) = a

\* the rationale a list holds for the candidate of a URL
ReasonsOf(list, url) == { list[j].analysis_reason : j \in { k \in 1..Len(list) : list[k].url = url } }

\* C25: after the heuristic, a candidate's rationale is only extended: the
\* deep read appends to what the heuristic wrote, the adjudication puts its
\* tag in front of what the deep read left, and so the final rationale
\* contains each earlier one as a contiguous part.
C25_RationaleOnlyExtended ==
    /\ \A i \in 1..Len(heuristic) :
          \A r \in ReasonsOf(candidates, Discovered(i).url) :
              /\ IsInfix(heuristic[i].reason, r)
              /\ spc = "analyze" => IsPrefix(heuristic[i].reason, r)
    /\ spc = "done" =>
          \A j \in 1..Len(ranked) :
              /\ ReasonsOf(candidates, ranked[j].url) # {}
              /\ \A r \in ReasonsOf(candidates, ranked[j].url) :
                    IsSuffix(ranked[j].analysis_reason, r)

C25_Witness ==
    /\ spc = "done" /\ raised = None
    /\ Len(ranked) = 2
    /\ candidates[1].url = ranked[2].url
    /\ candidates[1].url = Discovered(1).url
    /\ Len(heuristic[1].reason) < Len(ranked[2].analysis_reason)
    /\ Len(ranked[2].analysis_reason) < Len(candidates[1].analysis_reason)

\* how many places of a list hold the candidate of a URL
Count(list, url) == Cardinality({ k \in 1..Len(list) : list[k].url = url })

\* C27: the list a run returns is a permutation of the discovered
\* candidates: as long, every discovered candidate in it as often as it was
\* discovered, with its name and URL.
C27_ReturnedListIsPermutation ==
    (spc = "done" /\ raised = None) =>
        /\ Len(candidates) = Len(discover(searchResp))
        /\ \A i \in 1..Len(discover(searchResp)) :
              /\ Count(candidates, Discovered(i).url) = Count(discover(searchResp), Discovered(i).url)
              /\ \A k \in 1..Len(candidates) :
                    candidates[k].url = Discovered(i).url =>
                        /\ candidates[k].name = Discovered(i).name
                        /\ candidates[k].description = Discovered(i).description
                        /\ candidates[k].stars = Discovered(i).stars

C27_Witness ==
    /\ spc = "done" /\ raised = None
    /\ Len(candidates) = 2
    /\ candidates # ranked
    /\ ranked[1].url = Discovered(2).url
    /\ candidates[1].url = Discovered(1).url

(***************************************************************************)
(* Properties of the cache when the sub-path is missing, and of calls for  *)
(* different keys                                                          *)
(***************************************************************************)

SubPathError(r) == r.kind = "TemplateError" /\ r.err = "Sub-path not found in repo"

\* C28: a download that succeeds for an entry whose sub-path is not in the
\* tree ends in the sub-path error with the working copy left in the cache;
\* the next call for the key without force_update is a cache hit, runs no
\* git command, leaves the cache alone and raises the same error; a forced
\* update that succeeds returns the path exactly when the tree it brought
\* has the sub-path.
C28_MissingSubPathIsCached ==
    \A p \in Procs :
        /\ (/\ Done(p) /\ Supported(Key(p)) /\ ~WasCached(p)
            /\ Registry[Key(p)].sub_path # None
            /\ Ran(p, "pull") /\ ~AnyFailed(p)
            /\ ~disk[Key(p)].tree.sub)
              => /\ SubPathError(res[p])
                 /\ res[p].key = Key(p) /\ res[p].detail = Registry[Key(p)].sub_path
                 /\ Exists(disk, Key(p))
                 /\ disk[Key(p)].stage = "pulled"
                 /\ CacheBranch(Exists(disk, Key(p)), FALSE) = "hit"
        /\ (Calling(p) /\ ~arg[p].force /\ prev.key = Key(p) /\ SubPathError(prev.res))
              => /\ WasCached(p)
                 /\ cmds[p] = <<>>
                 /\ disk = pre[p]
                 /\ Done(p) => res[p] = prev.res
        /\ (/\ Done(p) /\ arg[p].force /\ prev.key = Key(p) /\ SubPathError(prev.res)
            /\ ~AnyFailed(p))
              => /\ CmdNames(p) = <<"fetch", "reset">>
                 /\ res[p].kind = "path" <=> disk[Key(p)].tree.sub

C28_Witness ==
    \E p \in Procs :
        /\ Done(p) /\ ~arg[p].force
        /\ prev.key = Key(p) /\ ~prev.cached /\ SubPathError(prev.res)
        /\ res[p] = prev.res
        /\ cmds[p] = <<>>
        /\ disk[Key(p)].stage = "pulled"

\* the cache with only the working copy of key k in it
Only(d, k) == [EmptyCache EXCEPT ![k] = d[k]]

\* a step changes the working copy of a key only as a step of the caller
\* that asked for that key, and leaves the other callers where they were
TouchesOwnKeyOnly ==
    \A k \in DOMAIN disk :
        disk'[k] # disk[k] =>
            \E p \in Procs :
                /\ Calling(p) /\ Key(p) = k
                /\ pc'[p] # pc[p]
                /\ \A q \in Procs \ {p} :
                      pc'[q] = pc[q] /\ res'[q] = res[q] /\ cmds'[q] = cmds[q] /\ arg'[q] = arg[q]

\* what a caller sees and gets is what it would see and get with the other
\* key's working copy left out
AsIfAlone(p) ==
    Calling(p) =>
        /\ (WasCached(p) /\ ~arg[p].force) =>
              cmds[p] = <<>> /\ disk[Key(p)] = pre[p][Key(p)]
        /\ (WasCached(p) /\ arg[p].force /\ Failed(p, "fetch")) =>
              disk[Key(p)] = pre[p][Key(p)]
        /\ (~WasCached(p) /\ Failed(p, "pull")) => ~Exists(disk, Key(p))
        /\ (Done(p) /\ ~AnyFailed(p) /\ res[p].kind \in {"path", "TemplateError"}) =>
              res[p] = ResolveResult(Only(disk, Key(p)), Key(p))

\* C26: with two callers asking for different keys side by side, a call,
\* whether it returns, raises or removes what it downloaded, never creates,
\* changes or removes the working copy of the other key, and every caller
\* finds and gets what it would with the other key left out, so that the
\* two calls give the cache and the results of either sequential order.
C26_DifferentKeysIndependent ==
    /\ [](\A p \in Procs : AsIfAlone(p))
    /\ [][TouchesOwnKeyOnly]_vars

C26_Witness ==
    /\ Done("p1") /\ Failed("p1", "pull") /\ ~Exists(disk, Key("p1"))
    /\ pc["p2"] = "pull" /\ Key("p2") # Key("p1")
    /\ Exists(disk, Key("p2")) /\ ~Exists(pre["p1"], Key("p2"))

====
